---------------------------- MODULE Spec2Model ----------------------------
(***************************************************************************)
(* PrismaQueryBuilder (src/src/app/utils/queryBuilder.ts): a fluent        *)
(* builder that turns an HTTP query-parameter mapping into the arguments   *)
(* of a Prisma findMany call and into pagination metadata.                 *)
(*                                                                         *)
(* JavaScript values are tagged records, JavaScript strings are sequences  *)
(* of one-character strings, and JavaScript objects are functions from     *)
(* property names (strings) to values, so that split, trim, startsWith,    *)
(* Number, parseInt and the computed property names of the source are      *)
(* modelled by what they do.                                               *)
(***************************************************************************)
EXTENDS Integers, Sequences, FiniteSets, TLC

(***************************************************************************)
(* JavaScript values                                                       *)
(***************************************************************************)
Undef == [t |-> "undefined"]
NaN == [t |-> "NaN"]
Str(s) == [t |-> "string", v |-> s]
Num(n) == [t |-> "number", v |-> n]
Bool(b) == [t |-> "boolean", v |-> b]
Arr(a) == [t |-> "array", v |-> a]
Obj(m) == [t |-> "object", v |-> m]
DateVal(d) == [t |-> "date", v |-> d]

\* The empty object {}.
EmptyObj == <<>>

\* o[k] of a JavaScript object: undefined when the property is absent.
Get(o, k) == IF k \in DOMAIN o THEN o[k] ELSE Undef

\* { ...a, ...b }
Spread(a, b) == [x \in DOMAIN a \cup DOMAIN b |-> IF x \in DOMAIN b THEN b[x] ELSE a[x]]

(***************************************************************************)
(* Strings                                                                 *)
(***************************************************************************)
Digits == <<"0", "1", "2", "3", "4", "5", "6", "7", "8", "9">>

IsDigit(c) == \E i \in 1..10 : Digits[i] = c

DigitValue(c) == (CHOOSE i \in 1..10 : Digits[i] = c) - 1

RECURSIVE JoinWith(_, _)
\* Array.prototype.join(sep) on an array of strings
JoinWith(a, sep) ==
    IF a = <<>> THEN <<>>
    ELSE IF Len(a) = 1 THEN a[1]
    ELSE a[1] \o sep \o JoinWith(Tail(a), sep)

RECURSIVE SplitComma(_)
\* String.prototype.split(","): always at least one token
SplitComma(s) ==
    IF \A i \in 1..Len(s) : s[i] # ","
    THEN <<s>>
    ELSE LET i == CHOOSE j \in 1..Len(s) :
                      s[j] = "," /\ \A k \in 1..(j - 1) : s[k] # ","
         IN  <<SubSeq(s, 1, i - 1)>> \o SplitComma(SubSeq(s, i + 1, Len(s)))

RECURSIVE TrimStart(_)
TrimStart(s) == IF s # <<>> /\ s[1] = " " THEN TrimStart(Tail(s)) ELSE s

RECURSIVE TrimEnd(_)
TrimEnd(s) ==
    IF s # <<>> /\ s[Len(s)] = " " THEN TrimEnd(SubSeq(s, 1, Len(s) - 1)) ELSE s

\* String.prototype.trim()
Trim(s) == TrimEnd(TrimStart(s))

\* String.prototype.startsWith("-")
StartsWithMinus(s) == s # <<>> /\ s[1] = "-"

\* String.prototype.substring(1)
Substring1(s) == IF s = <<>> THEN <<>> ELSE Tail(s)

RECURSIVE DigitsValue(_)
\* The value of a non-empty run of decimal digits.
DigitsValue(s) ==
    IF s = <<>> THEN 0
    ELSE 10 * DigitsValue(SubSeq(s, 1, Len(s) - 1)) + DigitValue(s[Len(s)])

AllDigits(s) == s # <<>> /\ \A i \in 1..Len(s) : IsDigit(s[i])

\* The longest prefix of s made of digits.
DigitPrefix(s) ==
    LET n == IF \A i \in 1..Len(s) : IsDigit(s[i]) THEN Len(s)
             ELSE (CHOOSE j \in 1..Len(s) :
                       ~IsDigit(s[j]) /\ \A k \in 1..(j - 1) : IsDigit(s[k])) - 1
    IN  SubSeq(s, 1, n)

\* ToString of the values a query parameter can hold.
ToStr(v) ==
    CASE v.t = "string" -> v.v
      [] v.t = "array" -> JoinWith(v.v, <<",">>)
      [] v.t = "object" ->
           <<"[", "o", "b", "j", "e", "c", "t", " ", "O", "b", "j", "e", "c", "t", "]">>
      [] v.t = "undefined" -> <<"u", "n", "d", "e", "f", "i", "n", "e", "d">>

\* StringToNumber on the strings of this model (letters, digits, "-", ",",
\* " "): white space is trimmed, the empty string is 0, an optionally
\* signed run of digits is its value, anything else is NaN.
StringToNumber(s) ==
    LET u == Trim(s)
    IN  IF u = <<>> THEN Num(0)
        ELSE IF AllDigits(u) THEN Num(DigitsValue(u))
        ELSE IF u[1] = "-" /\ AllDigits(Tail(u)) THEN Num(0 - DigitsValue(Tail(u)))
        ELSE NaN

\* Number(v)
ToNumber(v) ==
    CASE v.t = "undefined" -> NaN
      [] v.t = "number" -> v
      [] v.t = "NaN" -> v
      [] v.t = "boolean" -> Num(IF v.v THEN 1 ELSE 0)
      [] OTHER -> StringToNumber(ToStr(v))

\* parseInt(v, 10) and, on strings without "." or an exponent, parseFloat(v):
\* leading white space is skipped, then an optional sign and the longest run
\* of digits; NaN when there is no digit.
ParseInt(v) ==
    LET u == TrimStart(ToStr(v))
        neg == u # <<>> /\ u[1] = "-"
        body == IF neg THEN Tail(u) ELSE u
        ds == DigitPrefix(body)
    IN  IF ds = <<>> THEN NaN
        ELSE Num(IF neg THEN 0 - DigitsValue(ds) ELSE DigitsValue(ds))

\* ToBoolean
Truthy(v) ==
    CASE v.t = "undefined" -> FALSE
      [] v.t = "NaN" -> FALSE
      [] v.t = "string" -> v.v # <<>>
      [] v.t = "number" -> v.v # 0
      [] v.t = "boolean" -> v.v
      [] OTHER -> TRUE

\* Math.max(1, n) for a number n that is not NaN
Max1(n) == IF n > 1 THEN n ELSE 1

(***************************************************************************)
(* The strings of the source and of the inputs, spelled out.               *)
(***************************************************************************)
s_searchTerm == <<"s", "e", "a", "r", "c", "h", "T", "e", "r", "m">>
s_sort == <<"s", "o", "r", "t">>
s_fields == <<"f", "i", "e", "l", "d", "s">>
s_page == <<"p", "a", "g", "e">>
s_limit == <<"l", "i", "m", "i", "t">>
s_days == <<"d", "a", "y", "s">>
s_dateField == <<"d", "a", "t", "e", "F", "i", "e", "l", "d">>
s_populate == <<"p", "o", "p", "u", "l", "a", "t", "e">>
s_createdAt == <<"c", "r", "e", "a", "t", "e", "d", "A", "t">>
s_status == <<"s", "t", "a", "t", "u", "s">>
s_name == <<"n", "a", "m", "e">>
s_email == <<"e", "m", "a", "i", "l">>
s_password == <<"p", "a", "s", "s", "w", "o", "r", "d">>
s_other == <<"o", "t", "h", "e", "r">>
s_john == <<"j", "o", "h", "n">>
s_active == <<"a", "c", "t", "i", "v", "e">>
s_all == <<"a", "l", "l">>
s_null == <<"n", "u", "l", "l">>
s_undefined == <<"u", "n", "d", "e", "f", "i", "n", "e", "d">>
s_true == <<"t", "r", "u", "e">>
s_false == <<"f", "a", "l", "s", "e">>
s_AND == <<"A", "N", "D">>
s_OR == <<"O", "R">>
s_contains == <<"c", "o", "n", "t", "a", "i", "n", "s">>
s_mode == <<"m", "o", "d", "e">>
s_insensitive == <<"i", "n", "s", "e", "n", "s", "i", "t", "i", "v", "e">>
s_gte == <<"g", "t", "e">>
s_gt == <<"g", "t">>
s_asc == <<"a", "s", "c">>
s_desc == <<"d", "e", "s", "c">>
s_abc == <<"a", "b", "c">>
s_a == <<"a">>
s_b == <<"b">>
s_c == <<"c">>
s_x == <<"x">>

\* src/app/constants/excludeFields.ts
excludeFields ==
    <<s_searchTerm, s_sort, s_fields, s_page, s_limit, s_days, s_dateField, s_populate>>

Range(seq) == {seq[i] : i \in 1..Len(seq)}

\* Array.prototype.includes
Includes(seq, x) == \E i \in 1..Len(seq) : seq[i] = x

(***************************************************************************)
(* State                                                                   *)
(***************************************************************************)
VARIABLES
    query,              \* this.query: the shallow copy of req.query
    searchableFields,   \* this.searchableFields
    filterableFields,   \* this.filterableFields
    whereClause,        \* this.whereClause
    searchClause,       \* this.searchClause
    args,               \* this.args
    pc,                 \* "idle", or "awaiting" while getMeta awaits count
    countArg,           \* the where object the pending getMeta passed to count
    argsAtCall,         \* skip and take of this.args when that getMeta was invoked
    ret,                \* what the latest call returned, threw or settled with
    called              \* the configuration calls that have returned

input == <<query, searchableFields, filterableFields>>
builder == <<whereClause, searchClause, args>>
\* The pending getMeta: what it handed to count, and the window it was
\* invoked with.
pending == <<countArg, argsAtCall>>
vars == <<input, builder, pc, pending, ret, called>>

None == [t |-> "none"]

\* The builder's own fields as one value.
This == [whereClause |-> whereClause, searchClause |-> searchClause, args |-> args]

\* The take the constructor sets (queryBuilder.ts line 53).
DefaultTake == 20

\* The limit paginate() falls back to (queryBuilder.ts line 152).
DefaultLimit == 10

\* The page paginate() falls back to (queryBuilder.ts line 151).
DefaultPage == 1

\* The builder as the constructor leaves it.
Constructed ==
    [whereClause |-> EmptyObj,
     searchClause |-> EmptyObj,
     args |-> [where |-> EmptyObj, orderBy |-> Undef, skip |-> 0,
               take |-> DefaultTake, select |-> Undef, include |-> Undef]]

(***************************************************************************)
(* The operations, as functions of the builder b (the inputs are fixed at  *)
(* construction).                                                          *)
(***************************************************************************)

\* autoParseValue
\* autoParseValue that leaves the numeric strings as strings.
AutoParseValue_noNumber(v) ==
    IF v.t # "string" THEN v
    ELSE IF v.v = s_true THEN Bool(TRUE)
    ELSE IF v.v = s_false THEN Bool(FALSE)
    ELSE v

AutoParseValue(v) ==
    IF v.t # "string" THEN v
    ELSE IF v.v = s_true THEN Bool(TRUE)
    ELSE IF v.v = s_false THEN Bool(FALSE)
    ELSE IF ToNumber(v).t = "number" /\ ParseInt(v).t = "number" THEN ToNumber(v)
    ELSE v

\* The values filter() drops (lines 72-81).
IsDropped(v) ==
    \/ v.t = "undefined"
    \/ v.t = "string" /\ v.v \in {<<>>, s_all, s_null, s_undefined}

\* The object filter() builds, with the allowlist test left out.
FilterClause_noAllowlist ==
    LET fq1 == [k \in DOMAIN query \ Range(excludeFields) |-> query[k]]
        fq2 == [k \in {x \in DOMAIN fq1 : ~IsDropped(fq1[x])} |-> fq1[k]]
    IN  [k \in DOMAIN fq2 |->
            IF fq2[k].t = "object"
            THEN Obj([op \in DOMAIN fq2[k].v |-> AutoParseValue(fq2[k].v[op])])
            ELSE AutoParseValue(fq2[k])]

\* The object filter() builds (lines 63-106).
FilterClause ==
    LET fq1 == [k \in DOMAIN query \ Range(excludeFields) |-> query[k]]
        fq2 == [k \in {x \in DOMAIN fq1 : ~IsDropped(fq1[x])} |-> fq1[k]]
        keys == {k \in DOMAIN fq2 : Includes(filterableFields, k)}
    IN  [k \in keys |->
            IF fq2[k].t = "object"
            THEN Obj([op \in DOMAIN fq2[k].v |-> AutoParseValue(fq2[k].v[op])])
            ELSE AutoParseValue(fq2[k])]

filter(b) == [b EXCEPT !.whereClause = FilterClause]

\* search() with the branches of the OR in reverse order of searchableFields.
search_reversed(b) ==
    LET searchTerm == Get(query, s_searchTerm)
        n == Len(searchableFields)
    IN  IF Truthy(searchTerm) /\ n > 0
        THEN [b EXCEPT !.searchClause =
                 s_OR :> Arr([i \in 1..n |->
                     Obj(searchableFields[n + 1 - i] :>
                         Obj(s_contains :> searchTerm @@ s_mode :> Str(s_insensitive)))])]
        ELSE b

search(b) ==
    LET searchTerm == Get(query, s_searchTerm)
    IN  IF Truthy(searchTerm) /\ Len(searchableFields) > 0
        THEN [b EXCEPT !.searchClause =
                 s_OR :> Arr([i \in 1..Len(searchableFields) |->
                     Obj(searchableFields[i] :>
                         Obj(s_contains :> searchTerm @@ s_mode :> Str(s_insensitive)))])]
        ELSE b

\* (this.query.sort as string) || "-createdAt"
sortBy ==
    IF Truthy(Get(query, s_sort)) THEN Get(query, s_sort) ELSE Str(<<"-">> \o s_createdAt)

\* sortBy.split is not a function unless sortBy is a string.
sortThrows == sortBy.t # "string"

\* sort() that keeps the "-" of a descending token in the field name.
sort_keepPrefix(b) ==
    LET fields == SplitComma(sortBy.v)
        orderBy == [i \in 1..Len(fields) |->
                       IF StartsWithMinus(fields[i])
                       THEN Obj(fields[i] :> Str(s_desc))
                       ELSE Obj(fields[i] :> Str(s_asc))]
    IN  [b EXCEPT !.args.orderBy = Arr(orderBy)]

sort(b) ==
    LET fields == SplitComma(sortBy.v)
        orderBy == [i \in 1..Len(fields) |->
                       IF StartsWithMinus(fields[i])
                       THEN Obj(Substring1(fields[i]) :> Str(s_desc))
                       ELSE Obj(fields[i] :> Str(s_asc))]
    IN  [b EXCEPT !.args.orderBy = Arr(orderBy)]

\* Number(x) || d
NumberOr(v, d) == IF Truthy(ToNumber(v)) THEN ToNumber(v).v ELSE d

\* paginate() without the Math.max(1, ...) floors.
paginate_noFloor(b) ==
    LET page == NumberOr(Get(query, s_page), DefaultPage)
        take == NumberOr(Get(query, s_limit), DefaultLimit)
        skip == (page - 1) * take
    IN  [b EXCEPT !.args.skip = skip, !.args.take = take]

paginate(b) ==
    LET page == Max1(NumberOr(Get(query, s_page), DefaultPage))
        take == Max1(NumberOr(Get(query, s_limit), DefaultLimit))
        skip == (page - 1) * take
    IN  [b EXCEPT !.args.skip = skip, !.args.take = take]

\* The object fields() and populate() build from a comma-separated string.
MarkAll(str) ==
    LET toks == SplitComma(str)
    IN  Obj([k \in {Trim(toks[i]) : i \in 1..Len(toks)} |-> Bool(TRUE)])

fieldsThrows ==
    Truthy(Get(query, s_fields)) /\ Get(query, s_fields).t # "string"

fields(b) ==
    LET fieldsStr == Get(query, s_fields)
    IN  IF Truthy(fieldsStr)
        THEN [b EXCEPT !.args.select = MarkAll(fieldsStr.v)]
        ELSE b

populateThrows ==
    Truthy(Get(query, s_populate)) /\ Get(query, s_populate).t # "string"

populate(b) ==
    LET populateStr == Get(query, s_populate)
    IN  IF Truthy(populateStr)
        THEN [b EXCEPT !.args.select = Undef,
                       !.args.include = MarkAll(populateStr.v)]
        ELSE b

\* The date dateWise() computes: the start of the local day that lies
\* `days` days before the day of the call.
StartOfDayBefore(days) == DateVal([daysBeforeToday |-> days])

\* dateWise() that replaces the filter clause by the date condition.
dateWise_replace(b) ==
    LET days == ParseInt(Get(query, s_days))
        dateField == IF Truthy(Get(query, s_dateField))
                     THEN Get(query, s_dateField) ELSE Str(s_createdAt)
    IN  IF Truthy(days) /\ days.v > 0
        THEN [b EXCEPT !.whereClause =
                 ToStr(dateField) :> Obj(s_gte :> StartOfDayBefore(days.v))]
        ELSE b

dateWise(b) ==
    LET days == ParseInt(Get(query, s_days))
        dateField == IF Truthy(Get(query, s_dateField))
                     THEN Get(query, s_dateField) ELSE Str(s_createdAt)
    IN  IF Truthy(days) /\ days.v > 0
        THEN [b EXCEPT !.whereClause =
                 Spread(b.whereClause,
                        ToStr(dateField) :> Obj(s_gte :> StartOfDayBefore(days.v)))]
        ELSE b

\* buildFinalWhereClause() that forgets the search clause when a filter
\* clause is there.
buildFinalWhereClause_filterFirst(b) ==
    IF DOMAIN b.whereClause # {} THEN b.whereClause
    ELSE IF DOMAIN b.searchClause # {} THEN b.searchClause
    ELSE EmptyObj

buildFinalWhereClause(b) ==
    LET c1 == IF DOMAIN b.whereClause # {} THEN <<Obj(b.whereClause)>> ELSE <<>>
        conditions == IF DOMAIN b.searchClause # {}
                      THEN Append(c1, Obj(b.searchClause)) ELSE c1
    IN  IF Len(conditions) > 1 THEN s_AND :> Arr(conditions)
        ELSE IF Len(conditions) = 1 THEN conditions[1].v
        ELSE EmptyObj

\* getPrismaArgs() without the removal of select when include is set.
getPrismaArgs_keepSelect(b) ==
    [b EXCEPT !.args.where = buildFinalWhereClause(b)]

\* getPrismaArgs() that keeps a where it has already computed.
getPrismaArgs_cached(b) ==
    LET a1 == IF DOMAIN b.args.where # {} THEN b.args
              ELSE [b.args EXCEPT !.where = buildFinalWhereClause(b)]
    IN  [b EXCEPT !.args = IF Truthy(a1.include) THEN [a1 EXCEPT !.select = Undef] ELSE a1]

getPrismaArgs(b) ==
    LET a1 == [b.args EXCEPT !.where = buildFinalWhereClause(b)]
    IN  [b EXCEPT !.args = IF Truthy(a1.include) THEN [a1 EXCEPT !.select = Undef] ELSE a1]

(***************************************************************************)
(* getMeta: the synchronous part up to the await, and the part that runs   *)
(* when the count promise settles.                                         *)
(***************************************************************************)

\* Math.ceil(a / b) for a >= 0, b >= 1
CeilDiv(a, b) == (a + b - 1) \div b

\* The metadata with Math.floor in the place of Math.ceil.
MetaOf_floorPages(b, totalDocuments) ==
    [page |-> (b.args.skip \div b.args.take) + 1,
     limit |-> b.args.take,
     total |-> totalDocuments,
     totalPages |-> totalDocuments \div b.args.take]

\* What getMeta returns once count resolved to totalDocuments (lines 229-238).
MetaOf(b, totalDocuments) ==
    [page |-> (b.args.skip \div b.args.take) + 1,
     limit |-> b.args.take,
     total |-> totalDocuments,
     totalPages |-> CeilDiv(totalDocuments, b.args.take)]

\* getMeta that reads skip and take before the await, with the where object.
MetaFulfilment_atCall(b, n) ==
    [status |-> "fulfilled",
     value |-> MetaOf([b EXCEPT !.args.skip = argsAtCall.skip,
                                !.args.take = argsAtCall.take], n)]

\* How getMeta settles when count resolved to n: it returns the metadata.
MetaFulfilment(b, n) == [status |-> "fulfilled", value |-> MetaOf(b, n)]

\* getMeta() that wraps the reason of a rejected count in an error of its own.
MetaRejection_wrapped(e) == [status |-> "rejected", reason |-> "QueryBuilderError"]

\* How getMeta settles when count rejected with reason e: the await
\* rethrows e and nothing catches it.
MetaRejection(e) == [status |-> "rejected", reason |-> e]

(***************************************************************************)
(* Inputs                                                                  *)
(***************************************************************************)

\* The largest row count the count call answers with.
MaxTotal == 11

Totals == {0, 1, MaxTotal}

\* The errors the data-access handle rejects with.
CountErrors == {"P1001", "P2016"}

ConfigOps == {"filter", "search", "sort", "paginate", "fields", "populate", "dateWise"}

Assign(b) ==
    /\ whereClause' = b.whereClause
    /\ searchClause' = b.searchClause
    /\ args' = b.args

(***************************************************************************)
(* Actions                                                                 *)
(***************************************************************************)

\* A configuration call op that computes the builder next, or throws. An
\* exception ends the chain of calls: the caller's handler is left.
Configure(op, throws, next) ==
    /\ ret.t # "throw"
    /\ IF throws
       THEN /\ ret' = [t |-> "throw", op |-> op, error |-> "TypeError"]
            /\ UNCHANGED <<input, builder, pc, pending, called>>
       ELSE /\ Assign(next)
            /\ ret' = [t |-> "this"]
            /\ called' = called \cup {op}
            /\ UNCHANGED <<input, pc, pending>>

Filter == Configure("filter", FALSE, filter(This))

Search == Configure("search", FALSE, search(This))

Sort == Configure("sort", sortThrows, sort(This))

Paginate == Configure("paginate", FALSE, paginate(This))

Fields == Configure("fields", fieldsThrows, fields(This))

Populate == Configure("populate", populateThrows, populate(This))

DateWise == Configure("dateWise", FALSE, dateWise(This))

GetPrismaArgs ==
    /\ ret.t # "throw"
    /\ Assign(getPrismaArgs(This))
    /\ ret' = [t |-> "plan", v |-> args']
    /\ UNCHANGED <<input, pc, pending, called>>

\* getMeta up to the await: the where object is built and handed to count.
GetMeta ==
    /\ ret.t # "throw"
    /\ pc = "idle"
    /\ pc' = "awaiting"
    /\ countArg' = buildFinalWhereClause(This)
    /\ argsAtCall' = [skip |-> args.skip, take |-> args.take]
    /\ ret' = [t |-> "promise"]
    /\ UNCHANGED <<input, builder, called>>

\* count resolves: getMeta resumes and returns the metadata.
CountResolves ==
    /\ pc = "awaiting"
    /\ \E n \in Totals :
          ret' = [settled |-> MetaFulfilment(This, n),
                  count |-> [status |-> "fulfilled", value |-> n],
                  atCall |-> argsAtCall,
                  t |-> "settled"]
    /\ pc' = "idle"
    /\ countArg' = None
    /\ argsAtCall' = None
    /\ UNCHANGED <<input, builder, called>>

\* count rejects: getMeta rejects.
CountRejects ==
    /\ pc = "awaiting"
    /\ \E e \in CountErrors :
          ret' = [settled |-> MetaRejection(e),
                  count |-> [status |-> "rejected", reason |-> e],
                  atCall |-> argsAtCall,
                  t |-> "settled"]
    /\ pc' = "idle"
    /\ countArg' = None
    /\ argsAtCall' = None
    /\ UNCHANGED <<input, builder, called>>

Next ==
    \/ Filter
    \/ Search
    \/ Sort
    \/ Paginate
    \/ Fields
    \/ Populate
    \/ DateWise
    \/ GetPrismaArgs
    \/ GetMeta
    \/ CountResolves
    \/ CountRejects

\* The state after `new PrismaQueryBuilder(model, q, {searchableFields: sf,
\* filterableFields: ff})`.
InitWith(q, sf, ff) ==
    /\ query = q
    /\ searchableFields = sf
    /\ filterableFields = ff
    /\ whereClause = Constructed.whereClause
    /\ searchClause = Constructed.searchClause
    /\ args = Constructed.args
    /\ pc = "idle"
    /\ countArg = None
    /\ argsAtCall = None
    /\ ret = [t |-> "constructed"]
    /\ called = {}

(***************************************************************************)
(* The constructor inputs the model is run on: query-parameter mappings    *)
(* whose values are strings, string arrays or nested string maps, each     *)
(* with the field lists it is used with.                                   *)
(***************************************************************************)
Input(q, sf, ff) == [q |-> q, sf |-> sf, ff |-> ff]

\* {searchTerm: "john", status: "active", sort: "-createdAt", page: "2", limit: "5"}
EndToEndQuery ==
    s_searchTerm :> Str(s_john) @@ s_status :> Str(s_active)
    @@ s_sort :> Str(<<"-">> \o s_createdAt) @@ s_page :> Str(<<"2">>)
    @@ s_limit :> Str(<<"5">>)

EndToEndInputs == {Input(EndToEndQuery, <<s_name, s_email>>, <<s_status>>)}

\* page and limit: absent, non-numeric, zero, negative, positive.
PageValues == {Undef, Str(s_abc), Str(<<"0">>), Str(<<"-", "1">>), Str(<<"3">>)}

LimitValues == {Undef, Str(s_abc), Str(<<"0">>), Str(<<"-", "3">>), Str(<<"5">>)}

\* The object with property k set to v, or with no property when v is undefined.
Param(k, v) == IF v = Undef THEN EmptyObj ELSE k :> v

PaginationInputs ==
    {Input(Param(s_page, p) @@ Param(s_limit, l), <<>>, <<>>) :
        p \in PageValues, l \in LimitValues}

\* fields and populate: absent or comma-separated lists.
ProjectionInputs ==
    {Input(Param(s_fields, f) @@ Param(s_populate, p), <<>>, <<>>) :
        f \in {Undef, Str(<<"a", ",", "b">>), Str(<<" ", "a", ",", "b", " ">>)},
        p \in {Undef, Str(s_c)}}

\* Filters, the date window and the search term.
FilterInputs ==
    {Input(Param(s_status, st) @@ Param(s_days, d) @@ Param(s_dateField, df),
           <<s_name>>, <<s_status>>) :
        st \in {Undef, Str(s_active)},
        d \in {Undef, Str(<<"7">>)},
        df \in {Undef, Str(s_password), Str(s_status), Str(s_page)}}
    \cup
    {Input(Param(s_status, Str(s_active)) @@ Param(s_days, d), <<>>, <<s_status>>) :
        d \in {Str(s_abc), Str(<<"0">>), Str(<<"-", "1">>)}}
    \cup
    {Input(s_status :> Str(<<>>) @@ s_other :> Str(s_x), <<>>, <<s_status>>),
     Input(s_status :> Obj(s_gt :> Str(<<"1", "0", "0">>)) @@ s_searchTerm :> Str(s_john),
           <<s_name, s_email>>, <<s_status>>),
     Input(s_status :> Str(s_active) @@ s_sort :> Str(s_name) @@ s_days :> Str(<<"7">>),
           <<s_name>>, <<s_status, s_sort, s_days>>),
     Input(s_searchTerm :> Str(s_john), <<>>, <<s_status>>)}

\* Values that are not strings: arrays (a repeated parameter) and nested maps.
ShapeInputs ==
    {Input(s_sort :> Arr(<<s_a, s_b>>), <<>>, <<>>),
     Input(s_sort :> Obj(s_a :> Str(s_b)), <<>>, <<>>),
     Input(s_fields :> Arr(<<s_a, s_b>>), <<>>, <<>>),
     Input(s_populate :> Obj(s_a :> Str(s_b)), <<>>, <<>>),
     Input(s_searchTerm :> Arr(<<s_a, s_b>>) @@ s_page :> Arr(<<<<"2">>>>)
           @@ s_limit :> Obj(s_a :> Str(s_b)) @@ s_days :> Arr(<<<<"7">>, <<"8">>>>)
           @@ s_dateField :> Arr(<<s_a, s_b>>) @@ s_status :> Arr(<<s_a, s_b>>),
           <<s_name>>, <<s_status>>)}

\* sort: a descending and an ascending field, the empty string, an empty
\* token between two commas.
SortInputs ==
    {Input(s_sort :> Str(v), <<>>, <<>>) :
        v \in {<<"-">> \o s_createdAt \o <<",">> \o s_name,
               <<>>,
               <<"a", ",", ",", "-", "b">>}}

\* Filter values: the dropped ones, booleans, numbers, other strings, an
\* array and nested operator maps, next to a key that is not filterable.
FilterValues ==
    {Str(<<>>), Str(s_all), Str(s_null), Str(s_undefined),
     Str(s_true), Str(s_false), Str(<<"4", "2">>), Str(s_abc),
     Arr(<<s_a, s_b>>),
     Obj(s_gt :> Str(<<"4", "2">>) @@ s_a :> Str(s_true) @@ s_b :> Str(s_abc))}

ValueInputs ==
    {Input(s_status :> v @@ s_other :> Str(s_x), <<>>, <<s_status>>) : v \in FilterValues}

Inputs ==
    EndToEndInputs \cup PaginationInputs \cup ProjectionInputs \cup FilterInputs
    \cup ShapeInputs \cup SortInputs \cup ValueInputs

Init == \E i \in Inputs : InitWith(i.q, i.sf, i.ff)

Spec == Init /\ [][Next]_vars

(***************************************************************************)
(* Properties                                                              *)
(***************************************************************************)

\* The composition rule for the final filter expression, by cases on which
\* of the filter clause wc and the search clause sc is empty.
ComposedWhere(wc, sc) ==
    CASE wc # EmptyObj /\ sc # EmptyObj -> s_AND :> Arr(<<Obj(wc), Obj(sc)>>)
      [] wc # EmptyObj /\ sc = EmptyObj -> wc
      [] wc = EmptyObj /\ sc # EmptyObj -> sc
      [] wc = EmptyObj /\ sc = EmptyObj -> EmptyObj

\* The field names a filter expression w filters on: the keys of its filter
\* clause, which is the first conjunct of an AND, or w itself unless w is a
\* search clause alone.
FilteredFields(w) ==
    IF s_AND \in DOMAIN w THEN DOMAIN w[s_AND].v[1].v
    ELSE DOMAIN w \ {s_OR}

\* The filter expressions that are visible in the current state: the filter
\* clause, the where of a plan just returned, the where passed to a pending
\* count.
VisibleFilterFields ==
    DOMAIN whereClause
    \cup (IF ret.t = "plan" THEN FilteredFields(ret.v.where) ELSE {})
    \cup (IF pc = "awaiting" THEN FilteredFields(countArg) ELSE {})

\* C1: a field name that is not in filterableFields is never a key of the
\* filter clause, nor of the filter expression getPrismaArgs() returns or
\* getMeta() passes to count, whatever the query and the calls made,
\* dateWise() and its dateField included.
C1_OnlyAllowlistedFields ==
    \A k \in VisibleFilterFields : Includes(filterableFields, k)

\* C2: none of the reserved keys (searchTerm, sort, fields, page, limit,
\* days, dateField, populate) is a field key of the filter expression, also
\* when it is listed in filterableFields or given as dateField.
C2_NoReservedKey ==
    \A k \in VisibleFilterFields : ~Includes(excludeFields, k)

\* C2, the part that holds: what filter() alone builds has no reserved key,
\* also when filterableFields lists one.
FilterDropsReserved ==
    \A k \in DOMAIN FilterClause : ~Includes(excludeFields, k)

HasSelect(a) == a.select # Undef

HasInclude(a) == a.include # Undef

BothProjectionsCalled == {"fields", "populate"} \subseteq called

\* C3: a plan returned by getPrismaArgs() never carries both select and
\* include, in whatever order and however often fields() and populate()
\* were called; once both were called with both parameters present the plan
\* has include and no select, and fields "a,b" with populate "c" give
\* include {c: true}.
C3_NeverSelectAndInclude ==
    ret.t = "plan" =>
        /\ ~(HasSelect(ret.v) /\ HasInclude(ret.v))
        /\ ( /\ BothProjectionsCalled
             /\ Truthy(Get(query, s_fields))
             /\ Truthy(Get(query, s_populate)) )
           => (HasInclude(ret.v) /\ ~HasSelect(ret.v))
        /\ ( /\ BothProjectionsCalled
             /\ Get(query, s_fields) = Str(<<"a", ",", "b">>)
             /\ Get(query, s_populate) = Str(s_c) )
           => (ret.v.include = Obj(s_c :> Bool(TRUE)) /\ ret.v.select = Undef)

\* A plan returned after both fields("a,b") and populate("c") were called.
C3_Witness ==
    /\ ret.t = "plan"
    /\ BothProjectionsCalled
    /\ Get(query, s_fields) = Str(<<"a", ",", "b">>)
    /\ ret.v.include = Obj(s_c :> Bool(TRUE))

\* One configuration call, by name.
Apply(op, b) ==
    CASE op = "filter" -> filter(b)
      [] op = "search" -> search(b)
      [] op = "sort" -> sort(b)
      [] op = "paginate" -> paginate(b)
      [] op = "fields" -> fields(b)
      [] op = "populate" -> populate(b)
      [] op = "dateWise" -> dateWise(b)

RECURSIVE Run(_, _)
\* The calls of the sequence ops, made in that order on the builder b.
Run(ops, b) == IF ops = <<>> THEN b ELSE Run(Tail(ops), Apply(Head(ops), b))

\* The orders in which the calls of the set S can be made, each once.
Orders(S) ==
    {p \in [1..Cardinality(S) -> S] : \A i, j \in 1..Cardinality(S) : p[i] = p[j] => i = j}

\* What a caller gets from the builder b: the plan of getPrismaArgs() and the
\* filter expression getMeta() passes to count.
Observed(b) == <<getPrismaArgs(b).args, buildFinalWhereClause(b)>>

\* C4: the configuration calls are position-independent: the calls made so
\* far, taken in any two orders on the freshly constructed builder, give the
\* same plan and the same filter expression for count.
C4_PositionIndependent ==
    \A p, q \in Orders(called) :
        Observed(Run(p, Constructed)) = Observed(Run(q, Constructed))

\* The page and limit parameters that paginate() replaces by its defaults:
\* absent, not a number, or zero.
FallsBack(v) == v \in {Undef, Str(s_abc), Str(<<"0">>)}

\* C5: after paginate(), take >= 1 and skip = (page - 1) * take for an
\* effective page >= 1, so skip >= 0; an absent, non-numeric or zero page counts
\* as 1 and such a limit as 10; no page and no limit give skip 0, take 10;
\* page "3" with limit "5" gives skip 10, take 5.
C5_PaginateBounds ==
    "paginate" \in called =>
        LET page == Get(query, s_page)
            limit == Get(query, s_limit)
        IN  /\ args.take >= 1
            /\ args.skip >= 0
            /\ \E n \in 1..(args.skip + 1) : args.skip = (n - 1) * args.take
            /\ FallsBack(page) => args.skip = 0
            /\ FallsBack(limit) => args.take = 10
            /\ (page = Undef /\ limit = Undef) => (args.skip = 0 /\ args.take = 10)
            /\ (page = Str(<<"3">>) /\ limit = Str(<<"5">>))
                   => (args.skip = 10 /\ args.take = 5)

\* paginate() has run on page "3", limit "5".
C5_Witness ==
    /\ "paginate" \in called
    /\ Get(query, s_page) = Str(<<"3">>)
    /\ Get(query, s_limit) = Str(<<"5">>)
    /\ args.skip = 10

\* A negative limit has been through paginate().
C5_WitnessNegative ==
    /\ "paginate" \in called
    /\ Get(query, s_limit) = Str(<<"-", "3">>)
    /\ args.take = 1

\* The filter expressions handed out follow the composition rule on the
\* clauses of the state they are computed in.
FollowsRule ==
    /\ ret.t = "plan" => ret.v.where = ComposedWhere(whereClause, searchClause)
    /\ ret.t = "promise" => countArg = ComposedWhere(whereClause, searchClause)

\* getMeta() right after getPrismaArgs(), or getPrismaArgs() right after
\* getMeta(): both are handed the same filter expression.
SameForBoth ==
    /\ (ret.t = "plan" /\ ret'.t = "promise") => countArg' = ret.v.where
    /\ (ret.t = "promise" /\ ret'.t = "plan") => ret'.v.where = countArg

\* C6: the filter expression getMeta() passes to count and the one
\* getPrismaArgs() puts in where are the same in the same builder state, and
\* both are the AND of [filter clause, search clause] when both are non-empty,
\* the non-empty one when one is, and the empty expression when none is.
C6_SameComposedWhere == [](FollowsRule) /\ [][SameForBoth]_vars

\* getMeta() was called right on a state with both clauses non-empty, whose
\* plan had been computed before.
C6_Witness ==
    /\ ret.t = "promise"
    /\ whereClause # EmptyObj
    /\ searchClause # EmptyObj
    /\ countArg = s_AND :> Arr(<<Obj(whereClause), Obj(searchClause)>>)
    /\ args.where = countArg

\* C7: no synchronous call of the builder throws, whatever the shapes
\* (string, string array, nested string map) of the query values.
C7_NeverThrows == ret.t # "throw"

\* getMeta() has just rejected.
Rejected == ret.t = "settled" /\ ret.count.status = "rejected"

\* C8: when count rejects, getMeta() rejects with the very reason count
\* rejected with, and the step leaves the filter clause, the search clause
\* and the plan fields as they were.
C8_RejectionPropagates ==
    [][Rejected' =>
          /\ ret'.settled = [status |-> "rejected", reason |-> ret'.count.reason]
          /\ UNCHANGED builder]_vars

\* getMeta() has rejected on a builder with a filter clause.
C8_Witness == Rejected /\ whereClause # EmptyObj /\ ret.settled.status = "rejected"

\* Two getPrismaArgs() calls in a row return equal plans.
SamePlanTwice == (ret.t = "plan" /\ ret'.t = "plan") => ret'.v = ret.v

\* C9: getPrismaArgs() is idempotent (two calls in a row return equal
\* plans), and each call computes where from the clauses as they are at the
\* call, so a configuration call made between two calls shows in the second.
C9_Idempotent ==
    /\ [][SamePlanTwice]_vars
    /\ [](ret.t = "plan" => ret.v.where = ComposedWhere(whereClause, searchClause))

\* A plan returned after dateWise() has added its condition to a builder
\* whose where had been computed before.
C9_Witness ==
    /\ ret.t = "plan"
    /\ {"filter", "dateWise"} \subseteq called
    /\ DOMAIN ret.v.where = {s_status, s_createdAt}

Contains(term) == Obj(s_contains :> Str(term) @@ s_mode :> Str(s_insensitive))

EndToEndCase ==
    /\ query = EndToEndQuery
    /\ searchableFields = <<s_name, s_email>>
    /\ filterableFields = <<s_status>>
    /\ {"filter", "search", "sort", "paginate"} \subseteq called
    /\ ret.t = "plan"

\* C10: for {searchTerm: "john", status: "active", sort: "-createdAt",
\* page: "2", limit: "5"} with searchableFields [name, email] and
\* filterableFields [status], the plan after filter(), search(), sort() and
\* paginate() has skip 5, take 5, orderBy [{createdAt: desc}] and where
\* AND[{status: "active"}, {OR: [name contains john, email contains john]}],
\* case-insensitive, one branch per searchable field in listed order.
C10_EndToEnd ==
    EndToEndCase =>
        /\ ret.v.skip = 5
        /\ ret.v.take = 5
        /\ ret.v.orderBy = Arr(<<Obj(s_createdAt :> Str(s_desc))>>)
        /\ ret.v.where =
              s_AND :> Arr(<<Obj(s_status :> Str(s_active)),
                             Obj(s_OR :> Arr(<<Obj(s_name :> Contains(s_john)),
                                               Obj(s_email :> Contains(s_john))>>))>>)

C10_Witness == EndToEndCase /\ ret.v.skip = 5 /\ s_AND \in DOMAIN ret.v.where

\* The sort parameter as sort() reads it: the default when it is absent or
\* empty.
GivenSort ==
    IF Get(query, s_sort) \in {Undef, Str(<<>>)}
    THEN <<"-">> \o s_createdAt
    ELSE Get(query, s_sort).v

Commas(str) == Cardinality({i \in 1..Len(str) : str[i] = ","})

\* The only field name of a single-field pair.
FieldOf(pair) == CHOOSE k \in DOMAIN pair.v : TRUE

\* The token a single-field direction pair stands for.
TokenOf(pair) ==
    IF pair.v[FieldOf(pair)] = Str(s_desc) THEN <<"-">> \o FieldOf(pair) ELSE FieldOf(pair)

\* C11: sort() turns the comma-separated sort parameter into single-field
\* direction pairs, as many and in the same order as the tokens: "-" in front
\* gives descending on the name without the "-", anything else ascending (so
\* the pairs spell the parameter back); absent or empty gives
\* [{createdAt: desc}], "-createdAt,name" gives [{createdAt: desc}, {name: asc}].
C11_SortPairs ==
    "sort" \in called =>
        LET pairs == args.orderBy.v
        IN  /\ args.orderBy.t = "array"
            /\ Len(pairs) = Commas(GivenSort) + 1
            /\ \A i \in 1..Len(pairs) :
                  /\ pairs[i].t = "object"
                  /\ Cardinality(DOMAIN pairs[i].v) = 1
                  /\ pairs[i].v[FieldOf(pairs[i])] \in {Str(s_asc), Str(s_desc)}
                  /\ pairs[i].v[FieldOf(pairs[i])] = Str(s_asc)
                        => ~StartsWithMinus(FieldOf(pairs[i]))
            /\ JoinWith([i \in 1..Len(pairs) |-> TokenOf(pairs[i])], <<",">>) = GivenSort
            /\ Get(query, s_sort) \in {Undef, Str(<<>>)}
                  => pairs = <<Obj(s_createdAt :> Str(s_desc))>>
            /\ Get(query, s_sort) = Str(<<"-">> \o s_createdAt \o <<",">> \o s_name)
                  => pairs = <<Obj(s_createdAt :> Str(s_desc)), Obj(s_name :> Str(s_asc))>>

\* sort() has run on "-createdAt,name".
C11_Witness ==
    /\ "sort" \in called
    /\ Get(query, s_sort) = Str(<<"-">> \o s_createdAt \o <<",">> \o s_name)
    /\ Len(args.orderBy.v) = 2

\* The days parameters that open no date window: absent, not a number,
\* zero, negative.
NoWindow(v) == v \in {Undef, Str(s_abc), Str(<<"0">>), Str(<<"-", "1">>)}

\* The field the date condition is put on.
DateFieldName ==
    IF Get(query, s_dateField) = Undef THEN s_createdAt ELSE Get(query, s_dateField).v

\* What dateWise() is to make of the filter clause wc: wc2.
DateWiseEffect(wc, wc2) ==
    /\ Get(query, s_days) = Str(<<"7">>) =>
          /\ DOMAIN wc2 = DOMAIN wc \cup {DateFieldName}
          /\ wc2[DateFieldName] = Obj(s_gte :> DateVal([daysBeforeToday |-> 7]))
          /\ \A k \in DOMAIN wc \ {DateFieldName} : wc2[k] = wc[k]
    /\ NoWindow(Get(query, s_days)) => wc2 = wc

\* The first dateWise() call of a run.
FirstDateWise == "dateWise" \notin called /\ "dateWise" \in called'

\* C12: dateWise() with a positive integer days merges exactly one condition
\* {dateField: {gte: cutoff}} into the filter clause (dateField defaulting to
\* createdAt, cutoff the start of the day days days before now): the other
\* keys keep their values, a filter on the same field is replaced, and with
\* days absent, non-numeric, zero or negative the filter clause stays as it
\* is. Stated of the call in every reachable state, and of the calls made.
C12_DateWiseMerges ==
    /\ [](DateWiseEffect(whereClause, dateWise(This).whereClause))
    /\ [][FirstDateWise => DateWiseEffect(whereClause, whereClause')]_vars

\* dateWise() has replaced the status filter that filter() had set.
C12_Witness ==
    /\ {"filter", "dateWise"} \subseteq called
    /\ Get(query, s_status) = Str(s_active)
    /\ Get(query, s_dateField) = Str(s_status)
    /\ whereClause = s_status :> Obj(s_gte :> DateVal([daysBeforeToday |-> 7]))

\* dateWise() has added the createdAt condition next to the status filter.
C12_WitnessMerged ==
    /\ {"filter", "dateWise"} \subseteq called
    /\ DOMAIN whereClause = {s_status, s_createdAt}
    /\ whereClause[s_status] = Str(s_active)

\* What auto-parsing is to make of the strings of the inputs: the booleans,
\* the numbers, and the string itself otherwise.
ParsedString(str) ==
    CASE str = s_true -> Bool(TRUE)
      [] str = s_false -> Bool(FALSE)
      [] str = <<"4", "2">> -> Num(42)
      [] str = <<"1", "0", "0">> -> Num(100)
      [] OTHER -> Str(str)

\* What a filter value v is to become: a nested operator map has each of its
\* values parsed, a string is parsed, anything else (an array) stays.
ParsedFilterValue(v) ==
    CASE v.t = "object" -> Obj([op \in DOMAIN v.v |-> ParsedString(v.v[op].v)])
      [] v.t = "string" -> ParsedString(v.v)
      [] OTHER -> v

\* The keys filter() is to keep: not reserved, filterable, and with a value
\* that is not "", "all", "null" or "undefined" (null and absent values are
\* not in a query-string mapping).
KeptKeys ==
    {k \in DOMAIN query :
        /\ k \notin {s_searchTerm, s_sort, s_fields, s_page, s_limit, s_days,
                     s_dateField, s_populate}
        /\ k \in Range(filterableFields)
        /\ query[k] \notin {Str(<<>>), Str(s_all), Str(s_null), Str(s_undefined)}}

\* The filter clause filter() is to build.
KeptFilters == [k \in KeptKeys |-> ParsedFilterValue(query[k])]

\* The first filter() call of a run.
FirstFilter == "filter" \notin called /\ "filter" \in called'

StatusEmptyOtherX == query = s_status :> Str(<<>>) @@ s_other :> Str(s_x)

\* C13: filter() sets the filter clause to exactly the keys of the query that
\* are not reserved, are in filterableFields and have a value other than "",
\* "all", "null", "undefined", each with its auto-parsed value (an operator
\* map with each operator's value auto-parsed); with filterableFields
\* [status] and {status: "", other: "x"} the filter clause and the filter
\* expression are empty. Stated of the call in every reachable state, and of
\* the calls made.
C13_FilterKeeps ==
    /\ [](filter(This).whereClause = KeptFilters)
    /\ [][FirstFilter =>
            /\ whereClause' = KeptFilters
            /\ StatusEmptyOtherX =>
                  (whereClause' = EmptyObj /\ buildFinalWhereClause(This') = EmptyObj)]_vars

\* filter() has run on {status: "", other: "x"} and a plan was returned.
C13_Witness ==
    /\ "filter" \in called
    /\ StatusEmptyOtherX
    /\ filterableFields = <<s_status>>
    /\ ret.t = "plan"
    /\ ret.v.where = EmptyObj

\* The value got is what auto-parsing is to make of the value given.
Parses(given, got) ==
    /\ given = Str(s_true) => got = Bool(TRUE)
    /\ given = Str(s_false) => got = Bool(FALSE)
    /\ given = Str(<<"4", "2">>) => got = Num(42)
    /\ given = Str(s_abc) => got = Str(s_abc)
    /\ given = Arr(<<s_a, s_b>>) => got = Arr(<<s_a, s_b>>)
    /\ given.t # "string" => got = given
    /\ given.t = "string" => got.t \in {"boolean", "number", "string"}
    /\ (given.t = "string" /\ got.t = "string") => got = given
    /\ (given.t = "string" /\ got.t = "boolean") => given.v \in {s_true, s_false}
    /\ (given.t = "string" /\ got.t = "number") => got = StringToNumber(given.v)
    /\ (given.t = "string" /\ AllDigits(given.v)) => got = Num(DigitsValue(given.v))

\* C15: auto-parsing maps "true" to true, "false" to false, a numeric string
\* such as "42" to that number, any other string such as "abc" to itself and
\* a value that is not a string, such as the array ["a","b"], to itself; the
\* filter clause filter() leaves holds the auto-parsed value of every scalar
\* filter value and of every operator value of a nested operator object.
C15_AutoParse ==
    ("filter" \in called /\ "dateWise" \notin called) =>
        \A k \in DOMAIN whereClause :
            IF query[k].t = "object"
            THEN /\ whereClause[k].t = "object"
                 /\ DOMAIN whereClause[k].v = DOMAIN query[k].v
                 /\ \A op \in DOMAIN query[k].v :
                        Parses(query[k].v[op], whereClause[k].v[op])
            ELSE Parses(query[k], whereClause[k])

\* filter() has parsed the nested operator object
\* {gt: "42", a: "true", b: "abc"}.
C15_Witness ==
    /\ "filter" \in called
    /\ Get(query, s_status) =
          Obj(s_gt :> Str(<<"4", "2">>) @@ s_a :> Str(s_true) @@ s_b :> Str(s_abc))
    /\ whereClause =
          s_status :> Obj(s_gt :> Num(42) @@ s_a :> Bool(TRUE) @@ s_b :> Str(s_abc))

\* filter() has left the array ["a","b"] as it was.
C15_WitnessArray ==
    /\ "filter" \in called
    /\ Get(query, s_status) = Arr(<<s_a, s_b>>)
    /\ whereClause = s_status :> Arr(<<s_a, s_b>>)

\* The page paginate() uses for a page parameter that is absent or a string:
\* the page itself when it is a whole number of 1 or more, and 1 otherwise.
PageUsed ==
    LET page == Get(query, s_page)
    IN  IF page.t = "string" /\ AllDigits(page.v) /\ DigitsValue(page.v) >= 1
        THEN DigitsValue(page.v)
        ELSE 1

Fulfilled == ret.t = "settled" /\ ret.settled.status = "fulfilled"

\* C14: the value getMeta() is fulfilled with is {page, limit, total,
\* totalPages} with total the value count resolved to, limit = take,
\* page = floor(skip / take) + 1 and totalPages = ceil(total / limit), the
\* least number of pages of limit rows that hold total rows; after
\* paginate() the page is the page paginate() used; no rows give no pages;
\* 11 rows with page "3", limit "5" give page 3, limit 5, 3 pages.
C14_MetaOfCountAndWindow ==
    Fulfilled =>
        LET meta == ret.settled.value
        IN  /\ DOMAIN meta = {"page", "limit", "total", "totalPages"}
            /\ meta.total = ret.count.value
            /\ meta.limit = args.take
            /\ (meta.page - 1) * args.take <= args.skip
            /\ args.skip < meta.page * args.take
            /\ meta.totalPages >= 0
            /\ meta.totalPages * meta.limit >= meta.total
            /\ (meta.totalPages - 1) * meta.limit < meta.total
            /\ meta.total = 0 => meta.totalPages = 0
            /\ "paginate" \in called =>
                  /\ meta.page >= 1
                  /\ args.skip = (meta.page - 1) * args.take
                  /\ Get(query, s_page).t \in {"undefined", "string"}
                         => meta.page = PageUsed
            /\ ("paginate" \in called /\ Get(query, s_page) = Str(<<"3">>)
                  /\ Get(query, s_limit) = Str(<<"5">>) /\ meta.total = 11)
                  => meta = [page |-> 3, limit |-> 5, total |-> 11, totalPages |-> 3]

\* getMeta() was fulfilled after paginate() on page "3", limit "5", with a
\* count of 11.
C14_Witness ==
    /\ Fulfilled
    /\ "paginate" \in called
    /\ Get(query, s_page) = Str(<<"3">>)
    /\ Get(query, s_limit) = Str(<<"5">>)
    /\ ret.settled.value = [page |-> 3, limit |-> 5, total |-> 11, totalPages |-> 3]

\* getMeta() was fulfilled with a count of 0.
C14_WitnessEmpty ==
    /\ Fulfilled
    /\ ret.count.value = 0
    /\ ret.settled.value.totalPages = 0

\* The window the constructor sets: skip 0, take 20.
ConstructedWindow == [skip |-> Constructed.args.skip, take |-> Constructed.args.take]

\* The window of the builder now.
Window == [skip |-> args.skip, take |-> args.take]

\* getMeta() is invoked.
Invoked == pc = "idle" /\ pc' = "awaiting"

\* A configuration call returns while count is pending.
InWindow(op) == pc = "awaiting" /\ pc' = "awaiting" /\ called' = called \cup {op}

\* paginate() ran while count was pending, on a builder that had the
\* constructor's window when getMeta() was invoked, and getMeta() was
\* fulfilled since.
PaginatedInWindow ==
    /\ ret.t = "settled"
    /\ ret.settled.status = "fulfilled"
    /\ ret.atCall = ConstructedWindow
    /\ Window # ConstructedWindow

\* C16: getMeta() hands count the filter expression of the moment it is
\* invoked, and reads skip and take when count has resolved. A filter(),
\* search() or dateWise() call, or any other call, made while count is pending
\* leaves what count was handed; a paginate() call made in that time, on a
\* builder that had skip 0 and take 20, sets the limit of the metadata, and
\* its page and totalPages: with page "3", limit "5" and 11 rows the metadata
\* is page 3, limit 5, 3 pages, where the window of the invocation would
\* give page 1, limit 20, 1 page.
C16_AwaitInterleaving ==
    /\ [](PaginatedInWindow =>
             LET meta == ret.settled.value
                 total == ret.count.value
             IN  /\ "paginate" \in called
                 /\ meta = MetaOf(This, total)
                 /\ meta.limit = args.take
                 /\ meta.limit # ret.atCall.take
                 /\ meta.totalPages = CeilDiv(total, args.take)
                 /\ (Get(query, s_page) = Str(<<"3">>)
                       /\ Get(query, s_limit) = Str(<<"5">>) /\ total = 11)
                       => /\ meta = [page |-> 3, limit |-> 5, total |-> 11,
                                     totalPages |-> 3]
                          /\ MetaOf([args |-> ret.atCall], total) =
                                [page |-> 1, limit |-> 20, total |-> 11,
                                 totalPages |-> 1])
    /\ [][/\ Invoked =>
               /\ countArg' = buildFinalWhereClause(This)
               /\ argsAtCall' = Window
          /\ \A op \in ConfigOps : InWindow(op) => UNCHANGED pending
          /\ (pc = "awaiting" /\ pc' = "idle" /\ ret'.settled.status = "fulfilled")
                => /\ ret'.settled.value = MetaOf(This, ret'.count.value)
                   /\ ret'.atCall = argsAtCall]_vars

\* paginate() ran on page "3", limit "5" while count was pending, and the
\* metadata returned for 11 rows has page 3, limit 5 and 3 pages.
C16_Witness ==
    /\ PaginatedInWindow
    /\ Get(query, s_page) = Str(<<"3">>)
    /\ Get(query, s_limit) = Str(<<"5">>)
    /\ ret.count.value = 11
    /\ ret.settled.value = [page |-> 3, limit |-> 5, total |-> 11, totalPages |-> 3]

\* filter() ran while count was pending and changed the filter expression
\* of the builder; count holds the expression of the invocation.
C16_WitnessFilter ==
    /\ pc = "awaiting"
    /\ "filter" \in called
    /\ countArg = EmptyObj
    /\ buildFinalWhereClause(This) # EmptyObj
    /\ argsAtCall = ConstructedWindow

=============================================================================
